---- MODULE Spec2Model ----
(***************************************************************************)
(* Biologic_Tracker: scheduling of media/buffer preparation batches.       *)
(*                                                                         *)
(* The model follows src/biologic_tracker.py: the calendar utilities, the  *)
(* batch splitter and the availability finder are operators; the Initial   *)
(* Scheduler (optimize_schedule), Pass A (consolidate_preps) and Pass B    *)
(* (consolidate_preps_with_constraints) are run in the order of main(),    *)
(* one action per loop iteration of the code.                              *)
(*                                                                         *)
(* A date is the number of days since a fixed Monday, so that              *)
(* date.weekday() is date % 7 (Monday is 0, Sunday is 6) and adding        *)
(* timedelta(days=n) is adding n.  A dict is a sequence of its items in    *)
(* insertion order: a schedule is a sequence of records                    *)
(* [day |-> date, preps |-> <<prep, volume>> tuples in list order].        *)
(***************************************************************************)
EXTENDS Integers, Sequences, FiniteSets, TLC

VARIABLES
    task_dates,                \* dict task -> start date, as a sequence of [task, date] items
    tasks,                     \* dict task -> list of <<prep, volume>>, as a function
    prep_details,              \* dict prep -> [type, Expiration], as a function
    max_preps_per_day,         \* limit passed to the consolidation passes
    max_volume_per_day,        \* limit passed to the consolidation passes
    pc,                        \* position in main()
    ti,                        \* optimize_schedule: index of the current task in task_dates
    ri,                        \* optimize_schedule: index of the current requirement of the task
    batches,                   \* optimize_schedule: batches of the current requirement still to place
    available_days,            \* optimize_schedule: candidate days of the current requirement
    candidate_days,            \* history: available_days as line 330 computed it, before any pop
    schedule,                  \* optimize_schedule: the schedule under construction
    reported,                  \* optimize_schedule: the batches printed as having no available day
    final_schedule,            \* main: the schedule returned by optimize_schedule
    pending,                   \* both passes: the input entries the aggregation loop has not visited yet
    all_preps,                 \* consolidate_preps: the aggregation, in insertion order
    temp_storage,              \* consolidate_preps_with_constraints: the aggregation
    optimized_schedule,        \* both passes: the schedule under construction
    pi,                        \* both passes: index of the current preparation
    volume_remaining,          \* both passes: volume of the current preparation still to place
    day,                       \* both passes: the day the fill loop is at
    consolidated_schedule,     \* main: the schedule returned by consolidate_preps
    consolidated_schedule_new, \* main: the schedule returned by consolidate_preps_with_constraints
    heap,                      \* the identities of the dict and of the day lists of each schedule
    args,                      \* a single call of a utility: the objects bound to its parameters
    result                     \* a single call of a utility: the value it returned

vars == <<task_dates, tasks, prep_details, max_preps_per_day, max_volume_per_day, pc,
          ti, ri, batches, available_days, candidate_days, schedule, reported, final_schedule,
          pending, all_preps, temp_storage, optimized_schedule, pi, volume_remaining, day,
          consolidated_schedule, consolidated_schedule_new, heap, args, result>>

inputVars == <<task_dates, tasks, prep_details, max_preps_per_day, max_volume_per_day>>
optimizeVars == <<ti, ri, batches, available_days, candidate_days, schedule, reported>>
passVars == <<pending, all_preps, temp_storage, optimized_schedule, pi, volume_remaining, day>>
callVars == <<args, result>>

----------------------------------------------------------------------------
(* Bounds of the model *)

\* the most (prep, volume) requirements over all tasks of an input
MaxRows == 3

\* the most entries of a schedule handed directly to the consolidation passes
MaxEntries == 3

\* the latest date handed to a calendar utility called on its own
MaxDate == 13

\* the largest total volume handed to distribute_volume called on its own
MaxTotalVolume == 1600

\* the most candidate days handed to find_available_days called on its own
MaxCandidates == 3

----------------------------------------------------------------------------
(* Program constants *)

\* distribute_volume: the maximum volume of a single batch
max_volume == 500

\* find_available_days: a day is full at this many entries
MaxEntriesPerDay == 2

\* the defaults of max_preps_per_day and max_volume_per_day
DefaultMaxPrepsPerDay == 2

DefaultMaxVolumePerDay == 500

----------------------------------------------------------------------------
(* Python helpers *)

\* a slip: the first argument is taken whatever the second is
min_First(a, b) == a

min(a, b) == IF a <= b THEN a ELSE b

RECURSIVE SumSeq(_)
SumSeq(s) == IF s = <<>> THEN 0 ELSE Head(s) + SumSeq(Tail(s))

\* day in schedule
HasDay(s, d) == \E i \in DOMAIN s : s[i].day = d

\* schedule[day]
DayPreps(s, d) == s[CHOOSE i \in DOMAIN s : s[i].day = d].preps

\* schedule[day] = value: an existing key keeps its position, a new key goes last
SetDay(s, d, value) ==
    IF HasDay(s, d)
    THEN [i \in DOMAIN s |-> IF s[i].day = d THEN [day |-> d, preps |-> value] ELSE s[i]]
    ELSE Append(s, [day |-> d, preps |-> value])

\* sorted(...) of a set of dates: ascending
SortedDays(S) ==
    [i \in 1..Cardinality(S) |-> CHOOSE x \in S : Cardinality({y \in S : y < x}) = i - 1]

----------------------------------------------------------------------------
(* Calendar utilities, batch splitter, availability finder *)

\* a slip: one day back instead of two on the days that are neither Monday nor Tuesday
get_previous_weekday_OneDay(given_date) ==
    LET weekday == given_date % 7
    IN IF weekday = 0 THEN given_date - 3
       ELSE IF weekday = 1 THEN given_date - 4
       ELSE given_date - 1

\* a slip: the Tuesday is treated as the Monday is, three days back
get_previous_weekday_TuesdayAsMonday(given_date) ==
    LET weekday == given_date % 7
    IN IF weekday = 0 \/ weekday = 1 THEN given_date - 3
       ELSE given_date - 2

\* a slip: two days back on every day, the Monday and the Tuesday too
get_previous_weekday_AlwaysTwo(given_date) == given_date - 2

get_previous_weekday(given_date) ==
    LET weekday == given_date % 7
    IN IF weekday = 0 THEN given_date - 3
       ELSE IF weekday = 1 THEN given_date - 4
       ELSE given_date - 2

\* a slip: the batch of the remainder is forgotten
RECURSIVE distribute_volume_NoRemainder(_, _)
distribute_volume_NoRemainder(prep, total_volume) ==
    IF total_volume > 0
    THEN IF total_volume >= max_volume
         THEN <<<<prep, max_volume>>>>
                  \o distribute_volume_NoRemainder(prep, total_volume - max_volume)
         ELSE <<>>
    ELSE <<>>

RECURSIVE distribute_volume(_, _)
distribute_volume(prep, total_volume) ==
    IF total_volume > 0
    THEN IF total_volume >= max_volume
         THEN <<<<prep, max_volume>>>> \o distribute_volume(prep, total_volume - max_volume)
         ELSE <<<<prep, total_volume>>>>
    ELSE <<>>

\* a slip: the "+ 1" of total_days is forgotten, the end date is left out
get_working_days_EndExcluded(start_date, end_date) ==
    LET total_days == end_date - start_date
        all_dates == [x \in 1..total_days |-> start_date + (x - 1)]
    IN SelectSeq(all_dates, LAMBDA date : date % 7 < 5)

get_working_days(start_date, end_date) ==
    LET total_days == (end_date - start_date) + 1
        all_dates == [x \in 1..total_days |-> start_date + (x - 1)]
    IN SelectSeq(all_dates, LAMBDA date : date % 7 < 5)

\* a slip: the types of the entries of the day are not compared
find_available_days_IgnoreType(sched, current_type, date_list, details) ==
    LET Available(d) ==
            IF ~HasDay(sched, d) THEN TRUE
            ELSE Len(DayPreps(sched, d)) < MaxEntriesPerDay
    IN SelectSeq(date_list, Available)

\* a slip: "<=" for "<" in the test of a full day
find_available_days_OffByOne(sched, current_type, date_list, details) ==
    LET Available(d) ==
            IF ~HasDay(sched, d) THEN TRUE
            ELSE /\ Len(DayPreps(sched, d)) <= MaxEntriesPerDay
                 /\ \A k \in DOMAIN DayPreps(sched, d) :
                        details[DayPreps(sched, d)[k][1]].type = current_type
    IN SelectSeq(date_list, Available)

find_available_days(sched, current_type, date_list, details) ==
    LET Available(d) ==
            IF ~HasDay(sched, d) THEN TRUE
            ELSE /\ Len(DayPreps(sched, d)) < MaxEntriesPerDay
                 /\ \A k \in DOMAIN DayPreps(sched, d) :
                        details[DayPreps(sched, d)[k][1]].type = current_type
    IN SelectSeq(date_list, Available)

----------------------------------------------------------------------------
(* Object identities: which dict and which day lists a schedule variable holds *)

\* a variable that is bound to no dict yet
NoObject == [dict |-> 0, lists |-> <<>>]

\* the heap when final_schedule holds a dict of the items of sched, each day
\* with a list of its own, and no other schedule variable is bound
HeapOf(sched) ==
    [next |-> Len(sched) + 2,
     schedule |-> NoObject,
     final_schedule |-> [dict |-> 1, lists |-> [i \in DOMAIN sched |-> i + 1]],
     optimized_schedule |-> NoObject,
     consolidated_schedule |-> NoObject,
     consolidated_schedule_new |-> NoObject]

\* a slip: "optimized_schedule = schedule", the input dict under a second name
HeapNewDict_Alias(h, name) == [h EXCEPT ![name] = h["final_schedule"]]

\* "name = {}": a new dict without items
HeapNewDict(h, name) ==
    [h EXCEPT ![name] = [dict |-> h.next, lists |-> <<>>], !.next = @ + 1]

\* "if day not in optimized_schedule: optimized_schedule[day] = []": a new
\* list for a new key, which goes last
HeapEnsureDay(h, sched, d) ==
    IF HasDay(sched, d) THEN h
    ELSE [h EXCEPT !["optimized_schedule"].lists = Append(@, h.next), !.next = @ + 1]

\* "if not schedule.get(prod_day): schedule[prod_day] = []": a new list for a
\* new key, and a new list in the place of an empty one
HeapPutBatch(h, sched, d) ==
    IF ~HasDay(sched, d)
    THEN [h EXCEPT !["schedule"].lists = Append(@, h.next), !.next = @ + 1]
    ELSE IF DayPreps(sched, d) = <<>>
    THEN [h EXCEPT !["schedule"].lists[CHOOSE i \in DOMAIN sched : sched[i].day = d] = h.next,
                   !.next = @ + 1]
    ELSE h

\* "return name" and the assignment of the caller: the same objects
HeapBind(h, to, from) == [h EXCEPT ![to] = h[from]]

----------------------------------------------------------------------------
(* Inputs handed over by the loaders *)

TaskNames == <<"T1", "T2">>

\* the preparation database: load_prep_details_from_excel's result
PrepDB ==
    [p \in {"M1", "M2", "B1"} |->
        CASE p = "M1" -> [type |-> "Media", Expiration |-> 10]
          [] p = "M2" -> [type |-> "Media", Expiration |-> 5]
          [] p = "B1" -> [type |-> "Buffer", Expiration |-> 3]]

\* the volumes a row of the 'Preps to Use' sheet may request
Volumes == {300, 1300}

\* the start dates a task may have: a Tuesday and the Wednesday after it
StartDates == 15..16

\* the rows of the 'Preps to Use' sheet: task, preparation, volume
Rows(n) == {<<TaskNames[i], p, v>> : i \in 1..n, p \in DOMAIN PrepDB, v \in Volumes}

RECURSIVE SeqsUpTo(_, _)
SeqsUpTo(S, n) ==
    IF n = 0 THEN {<<>>}
    ELSE LET shorter == SeqsUpTo(S, n - 1)
         IN shorter \cup {Append(q, x) : q \in {r \in shorter : Len(r) = n - 1}, x \in S}

\* tasks_dict of load_excel_into_dict: the rows grouped by task, in row order
load_excel_into_dict(rows) ==
    LET present == {rows[i][1] : i \in DOMAIN rows}
        PrepVolume(t) == LET own == SelectSeq(rows, LAMBDA row : row[1] = t)
                         IN [k \in DOMAIN own |-> <<own[k][2], own[k][3]>>]
    IN [t \in present |-> PrepVolume(t)]

\* tasks.get(task, [])
Requirements(task) == IF task \in DOMAIN tasks THEN tasks[task] ELSE <<>>

----------------------------------------------------------------------------
(* Initial state of main(): the loaders have returned *)

InitLocals ==
    /\ ti = 1
    /\ ri = 1
    /\ batches = <<>>
    /\ available_days = <<>>
    /\ candidate_days = <<>>
    /\ schedule = <<>>
    /\ reported = <<>>
    /\ final_schedule = <<>>
    /\ pending = <<>>
    /\ all_preps = <<>>
    /\ temp_storage = <<>>
    /\ optimized_schedule = <<>>
    /\ pi = 0
    /\ volume_remaining = 0
    /\ day = 0
    /\ consolidated_schedule = <<>>
    /\ consolidated_schedule_new = <<>>
    /\ heap = [HeapOf(<<>>) EXCEPT !["schedule"] = [dict |-> 1, lists |-> <<>>],
                                   !["final_schedule"] = NoObject]

Init ==
    /\ \E n \in 0..Len(TaskNames) :
           /\ \E dates \in [1..n -> StartDates] :
                  task_dates = [i \in 1..n |-> [task |-> TaskNames[i], date |-> dates[i]]]
           /\ \E rows \in SeqsUpTo(Rows(n), MaxRows) : tasks = load_excel_into_dict(rows)
    /\ prep_details = PrepDB
    /\ max_preps_per_day = DefaultMaxPrepsPerDay
    /\ max_volume_per_day = DefaultMaxVolumePerDay
    /\ pc = "optimize_schedule"
    /\ InitLocals
    /\ args = <<>>
    /\ result = <<>>

----------------------------------------------------------------------------
(* optimize_schedule *)

\* the requirement the loops of optimize_schedule are at
CurTask == task_dates[ti].task

CurTaskDate == task_dates[ti].date

CurPrep == Requirements(CurTask)[ri][1]

CurVolume == Requirements(CurTask)[ri][2]

\* a slip: the task's own date is taken as the latest production day
EndDate_TaskDate(task_date) == task_date

\* end_date and start_date of the current requirement
EndDate(task_date) == get_previous_weekday(task_date)

StartDate(task_date, prep) == task_date - prep_details[prep].Expiration

\* a slip: a preparation without metadata is skipped, as with prep_details.get
BeginRequirement_SkipUnknown ==
    /\ pc = "optimize_schedule"
    /\ ti <= Len(task_dates)
    /\ ri <= Len(Requirements(CurTask))
    /\ IF CurPrep \notin DOMAIN prep_details
       THEN /\ pc' = "optimize_schedule"
            /\ ri' = ri + 1
            /\ UNCHANGED <<ti, batches, available_days, candidate_days>>
       ELSE LET prep_type == prep_details[CurPrep].type
                end_date == EndDate(CurTaskDate)
                start_date == StartDate(CurTaskDate, CurPrep)
                split == distribute_volume(CurPrep, CurVolume)
                working_days == get_working_days(start_date, end_date)
            IN /\ batches' = split
               /\ available_days' = find_available_days(schedule, prep_type, working_days, prep_details)
               /\ candidate_days' = available_days'
               /\ IF split = <<>>
                  THEN pc' = "optimize_schedule" /\ ri' = ri + 1
                  ELSE pc' = "place_batches" /\ ri' = ri
               /\ ti' = ti
    /\ UNCHANGED <<schedule, reported, final_schedule>>
    /\ UNCHANGED <<inputVars, callVars, heap, passVars, consolidated_schedule, consolidated_schedule_new>>

\* lines 320-330: look up the preparation, split the volume, list the candidate days
BeginRequirement ==
    /\ pc = "optimize_schedule"
    /\ ti <= Len(task_dates)
    /\ ri <= Len(Requirements(CurTask))
    /\ IF CurPrep \notin DOMAIN prep_details
       THEN /\ pc' = "KeyError"
            /\ UNCHANGED <<ti, ri, batches, available_days, candidate_days>>
       ELSE LET prep_type == prep_details[CurPrep].type
                end_date == EndDate(CurTaskDate)
                start_date == StartDate(CurTaskDate, CurPrep)
                split == distribute_volume(CurPrep, CurVolume)
                working_days == get_working_days(start_date, end_date)
            IN /\ batches' = split
               /\ available_days' = find_available_days(schedule, prep_type, working_days, prep_details)
               /\ candidate_days' = available_days'
               /\ IF split = <<>>
                  THEN pc' = "optimize_schedule" /\ ri' = ri + 1
                  ELSE pc' = "place_batches" /\ ri' = ri
               /\ ti' = ti
    /\ UNCHANGED <<schedule, reported, final_schedule>>
    /\ UNCHANGED <<inputVars, callVars, heap, passVars, consolidated_schedule, consolidated_schedule_new>>

\* the end of one iteration of "for batch in batches"
AfterBatch ==
    /\ batches' = Tail(batches)
    /\ IF Tail(batches) = <<>>
       THEN pc' = "optimize_schedule" /\ ri' = ri + 1
       ELSE pc' = "place_batches" /\ ri' = ri
    /\ ti' = ti

\* schedule after lines 338-340 put batch on prod_day
PutBatch(sched, prod_day, batch) ==
    LET fresh == IF ~HasDay(sched, prod_day) \/ DayPreps(sched, prod_day) = <<>>
                 THEN SetDay(sched, prod_day, <<>>)
                 ELSE sched
    IN SetDay(fresh, prod_day, Append(DayPreps(fresh, prod_day), <<batch[1], batch[2]>>))

\* a slip: the last available day is read but not popped
PlaceBatch_NoPop ==
    /\ pc = "place_batches"
    /\ batches # <<>>
    /\ available_days # <<>>
    /\ LET batch == Head(batches)
           prod_day == available_days[Len(available_days)]
       IN /\ available_days' = available_days
          /\ schedule' = PutBatch(schedule, prod_day, batch)
    /\ AfterBatch
    /\ UNCHANGED <<candidate_days, reported, final_schedule>>
    /\ UNCHANGED <<inputVars, callVars, passVars, consolidated_schedule, consolidated_schedule_new>>
    /\ heap' = HeapPutBatch(heap, schedule, available_days[Len(available_days)])

\* a slip: pop(0) for pop(), the batch goes on the first available day
PlaceBatch_Earliest ==
    /\ pc = "place_batches"
    /\ batches # <<>>
    /\ available_days # <<>>
    /\ LET batch == Head(batches)
           prod_day == available_days[1]
       IN /\ available_days' = Tail(available_days)
          /\ schedule' = PutBatch(schedule, prod_day, batch)
    /\ AfterBatch
    /\ UNCHANGED <<candidate_days, reported, final_schedule>>
    /\ UNCHANGED <<inputVars, callVars, passVars, consolidated_schedule, consolidated_schedule_new>>
    /\ heap' = HeapPutBatch(heap, schedule, available_days[1])

\* lines 337-340: the batch goes on the last available day
PlaceBatch ==
    /\ pc = "place_batches"
    /\ batches # <<>>
    /\ available_days # <<>>
    /\ LET batch == Head(batches)
           prod_day == available_days[Len(available_days)]
       IN /\ available_days' = SubSeq(available_days, 1, Len(available_days) - 1)
          /\ schedule' = PutBatch(schedule, prod_day, batch)
    /\ AfterBatch
    /\ UNCHANGED <<candidate_days, reported, final_schedule>>
    /\ UNCHANGED <<inputVars, callVars, passVars, consolidated_schedule, consolidated_schedule_new>>
    /\ heap' = HeapPutBatch(heap, schedule, available_days[Len(available_days)])

\* a slip: "break" for "continue", the later batches of the requirement are skipped unreported
DropBatch_Break ==
    /\ pc = "place_batches"
    /\ batches # <<>>
    /\ available_days = <<>>
    /\ reported' = Append(reported, Head(batches))
    /\ batches' = <<>>
    /\ pc' = "optimize_schedule"
    /\ ri' = ri + 1
    /\ ti' = ti
    /\ UNCHANGED <<available_days, candidate_days, schedule, final_schedule>>
    /\ UNCHANGED <<inputVars, callVars, heap, passVars, consolidated_schedule, consolidated_schedule_new>>

\* lines 333-335: no available day, the batch is printed and skipped
DropBatch ==
    /\ pc = "place_batches"
    /\ batches # <<>>
    /\ available_days = <<>>
    /\ reported' = Append(reported, Head(batches))
    /\ AfterBatch
    /\ UNCHANGED <<available_days, candidate_days, schedule, final_schedule>>
    /\ UNCHANGED <<inputVars, callVars, heap, passVars, consolidated_schedule, consolidated_schedule_new>>

\* line 316: the requirements of the task are exhausted, on to the next task
NextTask ==
    /\ pc = "optimize_schedule"
    /\ ti <= Len(task_dates)
    /\ ri > Len(Requirements(CurTask))
    /\ ti' = ti + 1
    /\ ri' = 1
    /\ UNCHANGED <<pc, batches, available_days, candidate_days, schedule, reported, final_schedule>>
    /\ UNCHANGED <<inputVars, callVars, heap, passVars, consolidated_schedule, consolidated_schedule_new>>

\* line 342 and main line 466: the schedule is returned
ReturnSchedule ==
    /\ pc = "optimize_schedule"
    /\ ti > Len(task_dates)
    /\ final_schedule' = schedule
    /\ pc' = "consolidate_preps"
    /\ UNCHANGED <<optimizeVars, inputVars, callVars, passVars, consolidated_schedule, consolidated_schedule_new>>
    /\ heap' = HeapBind(heap, "final_schedule", "schedule")

----------------------------------------------------------------------------
(* consolidate_preps (Pass A) *)

\* "for day, preps in schedule.items(): for prep, volume in preps": the
\* <<day, prep, volume>> triples in the order the loops visit them
RECURSIVE Entries(_)
Entries(sched) ==
    IF sched = <<>> THEN <<>>
    ELSE [k \in DOMAIN Head(sched).preps |->
             <<Head(sched).day, Head(sched).preps[k][1], Head(sched).preps[k][2]>>]
         \o Entries(Tail(sched))

\* a slip: "=" for "+=", the total is overwritten by the last volume
AddToAllPreps_Overwrite(acc, d, prep, volume, details) ==
    LET known == \E i \in DOMAIN acc : acc[i].prep = prep
        started == IF known THEN acc
                   ELSE Append(acc, [prep |-> prep, total_volume |-> 0,
                                     type |-> details[prep].type, earliest_day |-> d])
    IN [i \in DOMAIN started |->
           IF started[i].prep = prep
           THEN [started[i] EXCEPT
                    !.total_volume = volume,
                    !.earliest_day = IF d < @ THEN d ELSE @]
           ELSE started[i]]

\* a slip: the earliest day is the day of the first entry seen, never lowered
AddToAllPreps_FirstSeen(acc, d, prep, volume, details) ==
    LET known == \E i \in DOMAIN acc : acc[i].prep = prep
        started == IF known THEN acc
                   ELSE Append(acc, [prep |-> prep, total_volume |-> 0,
                                     type |-> details[prep].type, earliest_day |-> d])
    IN [i \in DOMAIN started |->
           IF started[i].prep = prep
           THEN [started[i] EXCEPT !.total_volume = @ + volume]
           ELSE started[i]]

\* lines 364-368: one entry is added to the aggregation
AddToAllPreps(acc, d, prep, volume, details) ==
    LET known == \E i \in DOMAIN acc : acc[i].prep = prep
        started == IF known THEN acc
                   ELSE Append(acc, [prep |-> prep, total_volume |-> 0,
                                     type |-> details[prep].type, earliest_day |-> d])
    IN [i \in DOMAIN started |->
           IF started[i].prep = prep
           THEN [started[i] EXCEPT
                    !.total_volume = @ + volume,
                    !.earliest_day = IF d < @ THEN d ELSE @]
           ELSE started[i]]

\* sum(v for p, v in optimized_schedule[day] if prep_details[p]['type'] == type)
TypeVolume(preps, type, details) ==
    LET same == SelectSeq(preps, LAMBDA e : details[e[1]].type = type)
    IN SumSeq([k \in DOMAIN same |-> same[k][2]])

\* a slip: the day is not advanced
NextDay_Stuck(d) == d

\* lines 392 and 452: day += timedelta(days=1)
NextDay(d) == d + 1

\* lines 378-379 and 435-436: the day gets an empty list when it has none
EnsureDay(sched, d) == IF ~HasDay(sched, d) THEN SetDay(sched, d, <<>>) ELSE sched

\* optimized_schedule[day].append((prep, volume))
AppendPrep(sched, d, prep, volume) ==
    SetDay(sched, d, Append(DayPreps(sched, d), <<prep, volume>>))

\* main line 469 calls consolidate_preps(final_schedule, prep_details): lines 361-362
StartA ==
    /\ pc = "consolidate_preps"
    /\ all_preps' = <<>>
    /\ pending' = Entries(final_schedule)
    /\ optimized_schedule' = <<>>
    /\ pi' = 0
    /\ pc' = IF Entries(final_schedule) = <<>> THEN "for_A" ELSE "aggregate_A"
    /\ UNCHANGED <<temp_storage, volume_remaining, day>>
    /\ UNCHANGED <<inputVars, callVars, optimizeVars, final_schedule, consolidated_schedule,
                   consolidated_schedule_new>>
    /\ heap' = HeapNewDict(heap, "optimized_schedule")

\* lines 363-368: one entry of the input schedule is aggregated
AggregateA ==
    /\ pc = "aggregate_A"
    /\ pending # <<>>
    /\ all_preps' = AddToAllPreps(all_preps, Head(pending)[1], Head(pending)[2],
                                  Head(pending)[3], prep_details)
    /\ pending' = Tail(pending)
    /\ pc' = IF Tail(pending) = <<>> THEN "for_A" ELSE "aggregate_A"
    /\ UNCHANGED <<temp_storage, optimized_schedule, pi, volume_remaining, day>>
    /\ UNCHANGED <<inputVars, callVars, heap, optimizeVars, final_schedule, consolidated_schedule,
                   consolidated_schedule_new>>

\* lines 372-377: the next preparation, up to the test of its while loop
ForA ==
    /\ pc = "for_A"
    /\ pi < Len(all_preps)
    /\ pi' = pi + 1
    /\ volume_remaining' = all_preps[pi + 1].total_volume
    /\ day' = all_preps[pi + 1].earliest_day
    /\ pc' = IF all_preps[pi + 1].total_volume > 0 THEN "while_A" ELSE "for_A"
    /\ UNCHANGED <<pending, all_preps, temp_storage, optimized_schedule>>
    /\ UNCHANGED <<inputVars, callVars, heap, optimizeVars, final_schedule, consolidated_schedule,
                   consolidated_schedule_new>>

\* a slip: the test of line 385 leaves out the number of entries of the day
WhileA_IgnoreCount ==
    /\ pc = "while_A"
    /\ LET details == all_preps[pi]
           with_day == EnsureDay(optimized_schedule, day)
           current_volume_on_day == TypeVolume(DayPreps(with_day, day), details.type, prep_details)
           available_volume == max_volume_per_day - current_volume_on_day
           fits == available_volume > 0
           volume_to_add == min(volume_remaining, available_volume)
           left == IF fits THEN volume_remaining - volume_to_add ELSE volume_remaining
       IN /\ optimized_schedule' =
                 IF fits THEN AppendPrep(with_day, day, details.prep, volume_to_add) ELSE with_day
          /\ volume_remaining' = left
          /\ day' = IF left > 0 THEN NextDay(day) ELSE day
          /\ pc' = IF left > 0 THEN "while_A" ELSE "for_A"
    /\ UNCHANGED <<pending, all_preps, temp_storage, pi>>
    /\ UNCHANGED <<inputVars, callVars, optimizeVars, final_schedule, consolidated_schedule,
                   consolidated_schedule_new>>
    /\ heap' = HeapEnsureDay(heap, optimized_schedule, day)

\* lines 378-392: one iteration of the fill loop, up to the next test of the loop
WhileA ==
    /\ pc = "while_A"
    /\ LET details == all_preps[pi]
           with_day == EnsureDay(optimized_schedule, day)
           current_volume_on_day == TypeVolume(DayPreps(with_day, day), details.type, prep_details)
           available_volume == max_volume_per_day - current_volume_on_day
           fits == Len(DayPreps(with_day, day)) < max_preps_per_day /\ available_volume > 0
           volume_to_add == min(volume_remaining, available_volume)
           left == IF fits THEN volume_remaining - volume_to_add ELSE volume_remaining
       IN /\ optimized_schedule' =
                 IF fits THEN AppendPrep(with_day, day, details.prep, volume_to_add) ELSE with_day
          /\ volume_remaining' = left
          /\ day' = IF left > 0 THEN NextDay(day) ELSE day
          /\ pc' = IF left > 0 THEN "while_A" ELSE "for_A"
    /\ UNCHANGED <<pending, all_preps, temp_storage, pi>>
    /\ UNCHANGED <<inputVars, callVars, optimizeVars, final_schedule, consolidated_schedule,
                   consolidated_schedule_new>>
    /\ heap' = HeapEnsureDay(heap, optimized_schedule, day)

\* line 394 and main line 469: the schedule is returned
ReturnA ==
    /\ pc = "for_A"
    /\ pi >= Len(all_preps)
    /\ consolidated_schedule' = optimized_schedule
    /\ pc' = "consolidate_preps_with_constraints"
    /\ UNCHANGED <<passVars, inputVars, callVars, optimizeVars, final_schedule, consolidated_schedule_new>>
    /\ heap' = HeapBind(heap, "consolidated_schedule", "optimized_schedule")

----------------------------------------------------------------------------
(* consolidate_preps_with_constraints (Pass B) *)

\* "for day in sorted(schedule.keys()): for prep, volume in schedule[day]"
EntriesByDay(sched) ==
    LET sorted_days == SortedDays({sched[i].day : i \in DOMAIN sched})
        OfDay(d) == [k \in DOMAIN DayPreps(sched, d) |->
                        <<d, DayPreps(sched, d)[k][1], DayPreps(sched, d)[k][2]>>]
        RECURSIVE Visit(_)
        Visit(days) == IF days = <<>> THEN <<>> ELSE OfDay(Head(days)) \o Visit(Tail(days))
    IN Visit(sorted_days)

\* a slip: a new record starts at the entry's volume, which is then added again
AddToTempStorage_CountTwice(acc, d, prep, volume, details) ==
    LET known == \E i \in DOMAIN acc : acc[i].prep = prep
        started == IF known THEN acc
                   ELSE Append(acc, [prep |-> prep, volume |-> volume, earliest_day |-> d,
                                     type |-> details[prep].type])
    IN [i \in DOMAIN started |->
           IF started[i].prep = prep
           THEN [started[i] EXCEPT
                    !.volume = @ + volume,
                    !.earliest_day = IF d < @ THEN d ELSE @]
           ELSE started[i]]

\* lines 421-427: one entry is added to the aggregation
AddToTempStorage(acc, d, prep, volume, details) ==
    LET known == \E i \in DOMAIN acc : acc[i].prep = prep
        started == IF known THEN acc
                   ELSE Append(acc, [prep |-> prep, volume |-> 0, earliest_day |-> d,
                                     type |-> details[prep].type])
    IN [i \in DOMAIN started |->
           IF started[i].prep = prep
           THEN [started[i] EXCEPT
                    !.volume = @ + volume,
                    !.earliest_day = IF d < @ THEN d ELSE @]
           ELSE started[i]]

\* main line 470 calls consolidate_preps_with_constraints: lines 412-418
StartB ==
    /\ pc = "consolidate_preps_with_constraints"
    /\ temp_storage' = <<>>
    /\ pending' = EntriesByDay(consolidated_schedule)
    /\ optimized_schedule' = <<>>
    /\ pi' = 0
    /\ pc' = IF EntriesByDay(consolidated_schedule) = <<>> THEN "for_B" ELSE "aggregate_B"
    /\ UNCHANGED <<all_preps, volume_remaining, day>>
    /\ UNCHANGED <<inputVars, callVars, optimizeVars, final_schedule, consolidated_schedule,
                   consolidated_schedule_new>>
    /\ heap' = HeapNewDict(heap, "optimized_schedule")

\* lines 420-427: one entry of the input schedule is aggregated
AggregateB ==
    /\ pc = "aggregate_B"
    /\ pending # <<>>
    /\ temp_storage' = AddToTempStorage(temp_storage, Head(pending)[1], Head(pending)[2],
                                        Head(pending)[3], prep_details)
    /\ pending' = Tail(pending)
    /\ pc' = IF Tail(pending) = <<>> THEN "for_B" ELSE "aggregate_B"
    /\ UNCHANGED <<all_preps, optimized_schedule, pi, volume_remaining, day>>
    /\ UNCHANGED <<inputVars, callVars, heap, optimizeVars, final_schedule, consolidated_schedule,
                   consolidated_schedule_new>>

\* lines 430-434: the next preparation, up to the test of its while loop
ForB ==
    /\ pc = "for_B"
    /\ pi < Len(temp_storage)
    /\ pi' = pi + 1
    /\ day' = temp_storage[pi + 1].earliest_day
    /\ volume_remaining' = temp_storage[pi + 1].volume
    /\ pc' = IF temp_storage[pi + 1].volume > 0 THEN "while_B" ELSE "for_B"
    /\ UNCHANGED <<pending, all_preps, temp_storage, optimized_schedule>>
    /\ UNCHANGED <<inputVars, callVars, heap, optimizeVars, final_schedule, consolidated_schedule,
                   consolidated_schedule_new>>

\* a slip: the test of line 440 leaves out the number of entries of the day
WhileB_IgnoreCount ==
    /\ pc = "while_B"
    /\ LET details == temp_storage[pi]
           with_day == EnsureDay(optimized_schedule, day)
           current_volume == TypeVolume(DayPreps(with_day, day), details.type, prep_details)
           room == Len(DayPreps(with_day, day)) < max_preps_per_day
           available_volume == min(max_volume_per_day - current_volume, volume_remaining)
           partial == available_volume > 0 /\ room
           left == IF partial THEN volume_remaining - available_volume ELSE volume_remaining
       IN IF current_volume + volume_remaining <= max_volume_per_day
          THEN /\ optimized_schedule' = AppendPrep(with_day, day, details.prep, volume_remaining)
               /\ pc' = "for_B"
               /\ UNCHANGED <<volume_remaining, day>>
          ELSE /\ optimized_schedule' =
                      IF partial THEN AppendPrep(with_day, day, details.prep, available_volume)
                      ELSE with_day
               /\ volume_remaining' = left
               /\ day' = NextDay(day)
               /\ pc' = IF left > 0 THEN "while_B" ELSE "for_B"
    /\ UNCHANGED <<pending, all_preps, temp_storage, pi>>
    /\ UNCHANGED <<inputVars, callVars, optimizeVars, final_schedule, consolidated_schedule,
                   consolidated_schedule_new>>
    /\ heap' = HeapEnsureDay(heap, optimized_schedule, day)

\* a slip: a volume that does not fit whole is not placed in part, the day is passed
WhileB_NoPartial ==
    /\ pc = "while_B"
    /\ LET details == temp_storage[pi]
           with_day == EnsureDay(optimized_schedule, day)
           current_volume == TypeVolume(DayPreps(with_day, day), details.type, prep_details)
           room == Len(DayPreps(with_day, day)) < max_preps_per_day
           fresh == DayPreps(with_day, day) = <<>>
           available_volume == min(max_volume_per_day - current_volume, volume_remaining)
           partial == available_volume > 0 /\ room /\ fresh
           left == IF partial THEN volume_remaining - available_volume ELSE volume_remaining
       IN IF room /\ current_volume + volume_remaining <= max_volume_per_day
          THEN /\ optimized_schedule' = AppendPrep(with_day, day, details.prep, volume_remaining)
               /\ pc' = "for_B"
               /\ UNCHANGED <<volume_remaining, day>>
          ELSE /\ optimized_schedule' =
                      IF partial THEN AppendPrep(with_day, day, details.prep, available_volume)
                      ELSE with_day
               /\ volume_remaining' = left
               /\ day' = NextDay(day)
               /\ pc' = IF left > 0 THEN "while_B" ELSE "for_B"
    /\ UNCHANGED <<pending, all_preps, temp_storage, pi>>
    /\ UNCHANGED <<inputVars, callVars, optimizeVars, final_schedule, consolidated_schedule,
                   consolidated_schedule_new>>
    /\ heap' = HeapEnsureDay(heap, optimized_schedule, day)

\* lines 435-452: one iteration of the fill loop, up to the next test of the loop
WhileB ==
    /\ pc = "while_B"
    /\ LET details == temp_storage[pi]
           with_day == EnsureDay(optimized_schedule, day)
           current_volume == TypeVolume(DayPreps(with_day, day), details.type, prep_details)
           room == Len(DayPreps(with_day, day)) < max_preps_per_day
           available_volume == min(max_volume_per_day - current_volume, volume_remaining)
           partial == available_volume > 0 /\ room
           left == IF partial THEN volume_remaining - available_volume ELSE volume_remaining
       IN IF room /\ current_volume + volume_remaining <= max_volume_per_day
          THEN \* lines 441-442: everything fits, break
               /\ optimized_schedule' = AppendPrep(with_day, day, details.prep, volume_remaining)
               /\ pc' = "for_B"
               /\ UNCHANGED <<volume_remaining, day>>
          ELSE \* lines 445-452: what fits is placed, on to the next day
               /\ optimized_schedule' =
                      IF partial THEN AppendPrep(with_day, day, details.prep, available_volume)
                      ELSE with_day
               /\ volume_remaining' = left
               /\ day' = NextDay(day)
               /\ pc' = IF left > 0 THEN "while_B" ELSE "for_B"
    /\ UNCHANGED <<pending, all_preps, temp_storage, pi>>
    /\ UNCHANGED <<inputVars, callVars, optimizeVars, final_schedule, consolidated_schedule,
                   consolidated_schedule_new>>
    /\ heap' = HeapEnsureDay(heap, optimized_schedule, day)

\* line 454 and main line 470: the schedule is returned
ReturnB ==
    /\ pc = "for_B"
    /\ pi >= Len(temp_storage)
    /\ consolidated_schedule_new' = optimized_schedule
    /\ pc' = "done"
    /\ UNCHANGED <<passVars, inputVars, callVars, optimizeVars, final_schedule, consolidated_schedule>>
    /\ heap' = HeapBind(heap, "consolidated_schedule_new", "optimized_schedule")

----------------------------------------------------------------------------
(* main(): the Initial Scheduler, then Pass A, then Pass B *)

Next ==
    \/ BeginRequirement
    \/ PlaceBatch
    \/ DropBatch
    \/ NextTask
    \/ ReturnSchedule
    \/ StartA
    \/ AggregateA
    \/ ForA
    \/ WhileA
    \/ ReturnA
    \/ StartB
    \/ AggregateB
    \/ ForB
    \/ WhileB
    \/ ReturnB

Spec == Init /\ [][Next]_vars

----------------------------------------------------------------------------
(* The consolidation passes on a schedule of any shape: Pass A, then Pass B *)

\* the days and volumes of the entries of such a schedule
InputDays == 9..11

InputVolumes == {300, 500}

InputEntries == {<<d, p, v>> : d \in InputDays, p \in DOMAIN PrepDB, v \in InputVolumes}

\* the dict built by schedule.setdefault(day, []).append((prep, volume)), entry by entry
RECURSIVE ScheduleOf(_, _)
ScheduleOf(acc, entries) ==
    IF entries = <<>> THEN acc
    ELSE LET e == Head(entries)
             with_day == IF HasDay(acc, e[1]) THEN acc ELSE SetDay(acc, e[1], <<>>)
         IN ScheduleOf(SetDay(with_day, e[1], Append(DayPreps(with_day, e[1]), <<e[2], e[3]>>)),
                       Tail(entries))

InitPasses ==
    /\ task_dates = <<>>
    /\ tasks = <<>>
    /\ prep_details = PrepDB
    /\ max_preps_per_day = DefaultMaxPrepsPerDay
    /\ max_volume_per_day = DefaultMaxVolumePerDay
    /\ pc = "consolidate_preps"
    /\ ti = 1
    /\ ri = 1
    /\ batches = <<>>
    /\ available_days = <<>>
    /\ candidate_days = <<>>
    /\ schedule = <<>>
    /\ reported = <<>>
    /\ \E entries \in SeqsUpTo(InputEntries, MaxEntries) : final_schedule = ScheduleOf(<<>>, entries)
    /\ heap = HeapOf(final_schedule)
    /\ pending = <<>>
    /\ all_preps = <<>>
    /\ temp_storage = <<>>
    /\ optimized_schedule = <<>>
    /\ pi = 0
    /\ volume_remaining = 0
    /\ day = 0
    /\ consolidated_schedule = <<>>
    /\ consolidated_schedule_new = <<>>
    /\ args = <<>>
    /\ result = <<>>

NextPasses ==
    \/ StartA
    \/ AggregateA
    \/ ForA
    \/ WhileA
    \/ ReturnA
    \/ StartB
    \/ AggregateB
    \/ ForB
    \/ WhileB
    \/ ReturnB

SpecPasses == InitPasses /\ [][NextPasses]_vars

\* The scheduling of main() cannot be starved: it is one sequential program.
FairSpec == Spec /\ WF_vars(Next)

----------------------------------------------------------------------------
(* The Initial Scheduler on a workbook whose 'Prep DB' sheet lacks a preparation *)

\* load_prep_details_from_excel's result without the row of preparation q
WithoutPrep(q) == [p \in DOMAIN PrepDB \ {q} |-> PrepDB[p]]

InitMissing ==
    /\ \E n \in 0..Len(TaskNames) :
           /\ \E dates \in [1..n -> StartDates] :
                  task_dates = [i \in 1..n |-> [task |-> TaskNames[i], date |-> dates[i]]]
           /\ \E rows \in SeqsUpTo(Rows(n), MaxRows) : tasks = load_excel_into_dict(rows)
    /\ \E q \in DOMAIN PrepDB : prep_details = WithoutPrep(q)
    /\ max_preps_per_day = DefaultMaxPrepsPerDay
    /\ max_volume_per_day = DefaultMaxVolumePerDay
    /\ pc = "optimize_schedule"
    /\ InitLocals
    /\ args = <<>>
    /\ result = <<>>

\* optimize_schedule alone: a KeyError leaves it and main(), no step follows
NextOptimize ==
    \/ BeginRequirement
    \/ PlaceBatch
    \/ DropBatch
    \/ NextTask
    \/ ReturnSchedule

SpecMissing == InitMissing /\ [][NextOptimize]_vars

----------------------------------------------------------------------------
(* Each consolidation pass on the same schedule of any shape, under any limits *)

\* the days, preparations and volume of the entries of such a schedule
CompareDays == 9..10

CompareEntries == {<<d, p, 2>> : d \in CompareDays, p \in DOMAIN PrepDB}

\* the limits handed to both passes
PrepsLimits == 1..2

VolumeLimits == 1..3

InitCompare ==
    /\ task_dates = <<>>
    /\ tasks = <<>>
    /\ prep_details = PrepDB
    /\ max_preps_per_day \in PrepsLimits
    /\ max_volume_per_day \in VolumeLimits
    /\ pc = "consolidate_preps"
    /\ ti = 1
    /\ ri = 1
    /\ batches = <<>>
    /\ available_days = <<>>
    /\ candidate_days = <<>>
    /\ schedule = <<>>
    /\ reported = <<>>
    /\ \E entries \in SeqsUpTo(CompareEntries, MaxEntries) :
           final_schedule = ScheduleOf(<<>>, entries)
    /\ heap = HeapOf(final_schedule)
    /\ pending = <<>>
    /\ all_preps = <<>>
    /\ temp_storage = <<>>
    /\ optimized_schedule = <<>>
    /\ pi = 0
    /\ volume_remaining = 0
    /\ day = 0
    /\ consolidated_schedule = <<>>
    /\ consolidated_schedule_new = <<>>
    /\ args = <<>>
    /\ result = <<>>

\* consolidate_preps_with_constraints(final_schedule, prep_details, max_preps_per_day,
\* max_volume_per_day), called when consolidate_preps has returned: lines 412-418
StartBOnInput ==
    /\ pc = "consolidate_preps_with_constraints"
    /\ temp_storage' = <<>>
    /\ pending' = EntriesByDay(final_schedule)
    /\ optimized_schedule' = <<>>
    /\ pi' = 0
    /\ pc' = IF EntriesByDay(final_schedule) = <<>> THEN "for_B" ELSE "aggregate_B"
    /\ UNCHANGED <<all_preps, volume_remaining, day>>
    /\ UNCHANGED <<inputVars, callVars, optimizeVars, final_schedule, consolidated_schedule,
                   consolidated_schedule_new>>
    /\ heap' = HeapNewDict(heap, "optimized_schedule")

NextCompare ==
    \/ StartA
    \/ AggregateA
    \/ ForA
    \/ WhileA
    \/ ReturnA
    \/ StartBOnInput
    \/ AggregateB
    \/ ForB
    \/ WhileB
    \/ ReturnB

SpecCompare == InitCompare /\ [][NextCompare]_vars

----------------------------------------------------------------------------
(* One call of a utility on arguments of any shape *)

\* the dates handed to get_previous_weekday and get_working_days
CallDates == 0..MaxDate

\* the days and entries of the schedule handed to find_available_days, and the
\* days of its candidate list (day 11 is on no such schedule)
CallScheduleDays == 9..10

CallEntries == {<<d, p, 300>> : d \in CallScheduleDays, p \in {"M1", "B1"}}

CallCandidates == 9..11

CallArgs ==
    [fn : {"get_previous_weekday"}, given_date : CallDates]
    \cup [fn : {"distribute_volume"}, prep : DOMAIN PrepDB, total_volume : 0..MaxTotalVolume]
    \cup [fn : {"get_working_days"}, start_date : CallDates, end_date : CallDates]
    \cup [fn : {"find_available_days"},
          schedule : {ScheduleOf(<<>>, entries) : entries \in SeqsUpTo(CallEntries, MaxEntries)},
          current_type : {"Media", "Buffer"},
          date_list : SeqsUpTo(CallCandidates, MaxCandidates)]

InitCalls ==
    /\ task_dates = <<>>
    /\ tasks = <<>>
    /\ prep_details = PrepDB
    /\ max_preps_per_day = DefaultMaxPrepsPerDay
    /\ max_volume_per_day = DefaultMaxVolumePerDay
    /\ InitLocals
    /\ args \in CallArgs
    /\ pc = args.fn
    /\ result = <<>>

\* the call returns: nothing but the result changes, no parameter is written to
Return(value) ==
    /\ result' = value
    /\ pc' = "returned"
    /\ UNCHANGED <<args, inputVars, optimizeVars, passVars, final_schedule,
                   consolidated_schedule, consolidated_schedule_new, heap>>

Call_get_previous_weekday ==
    /\ pc = "get_previous_weekday"
    /\ Return(get_previous_weekday(args.given_date))

Call_distribute_volume ==
    /\ pc = "distribute_volume"
    /\ Return(distribute_volume(args.prep, args.total_volume))

Call_get_working_days ==
    /\ pc = "get_working_days"
    /\ Return(get_working_days(args.start_date, args.end_date))

\* a slip: the candidate list is consumed while it is filtered
Call_find_available_days_Consume ==
    /\ pc = "find_available_days"
    /\ result' = find_available_days(args.schedule, args.current_type, args.date_list,
                                     prep_details)
    /\ args' = [args EXCEPT !.date_list = <<>>]
    /\ pc' = "returned"
    /\ UNCHANGED <<inputVars, optimizeVars, passVars, final_schedule,
                   consolidated_schedule, consolidated_schedule_new, heap>>

Call_find_available_days ==
    /\ pc = "find_available_days"
    /\ Return(find_available_days(args.schedule, args.current_type, args.date_list,
                                  prep_details))

NextCalls ==
    \/ Call_get_previous_weekday
    \/ Call_distribute_volume
    \/ Call_get_working_days
    \/ Call_find_available_days

SpecCalls == InitCalls /\ [][NextCalls]_vars

----------------------------------------------------------------------------
(* Measures over schedules, used to state the properties *)

Types == {"Media", "Buffer"}

\* optimize_schedule has returned: final_schedule is its result
InitialReturned ==
    pc \in {"consolidate_preps", "aggregate_A", "for_A", "while_A",
            "consolidate_preps_with_constraints", "aggregate_B", "for_B", "while_B", "done"}

\* consolidate_preps has returned: consolidated_schedule is its result
PassAReturned ==
    pc \in {"consolidate_preps_with_constraints", "aggregate_B", "for_B", "while_B", "done"}

\* consolidate_preps_with_constraints has returned: consolidated_schedule_new is its result
PassBReturned == pc = "done"

\* the volume of type t among the entries of one day
DayTypeVolume(preps, t) ==
    SumSeq([k \in DOMAIN preps |-> IF PrepDB[preps[k][1]].type = t THEN preps[k][2] ELSE 0])

\* the volume of preparation p over all days of a schedule
ScheduledVolume(sched, p) ==
    SumSeq([i \in DOMAIN sched |->
               SumSeq([k \in DOMAIN sched[i].preps |->
                          IF sched[i].preps[k][1] = p THEN sched[i].preps[k][2] ELSE 0])])

\* the volume of preparation p requested by the tasks that have a start date
RequestedVolume(p) ==
    SumSeq([i \in DOMAIN task_dates |->
               LET reqs == Requirements(task_dates[i].task)
               IN SumSeq([k \in DOMAIN reqs |-> IF reqs[k][1] = p THEN reqs[k][2] ELSE 0])])

\* the volume of preparation p reported as unplaceable
ReportedVolume(p) ==
    SumSeq([k \in DOMAIN reported |-> IF reported[k][1] = p THEN reported[k][2] ELSE 0])

\* the number of batches the requirements of all tasks split into
RECURSIVE BatchCount(_)
BatchCount(v) == IF v <= 0 THEN 0 ELSE 1 + BatchCount(v - max_volume)

RequestedBatches ==
    SumSeq([i \in DOMAIN task_dates |->
               LET reqs == Requirements(task_dates[i].task)
               IN SumSeq([k \in DOMAIN reqs |-> BatchCount(reqs[k][2])])])

\* the number of entries of a schedule
EntryCount(sched) == SumSeq([i \in DOMAIN sched |-> Len(sched[i].preps)])

\* the distinct production days of a schedule
ProductionDays(sched) == {sched[i].day : i \in {j \in DOMAIN sched : sched[j].preps # <<>>}}

VolumeCapHolds(sched, cap) ==
    \A i \in DOMAIN sched : \A t \in Types : DayTypeVolume(sched[i].preps, t) <= cap

CountCapHolds(sched, cap) == \A i \in DOMAIN sched : Len(sched[i].preps) <= cap

NoMixedDay(sched) ==
    \A i \in DOMAIN sched : \A k, l \in DOMAIN sched[i].preps :
        PrepDB[sched[i].preps[k][1]].type = PrepDB[sched[i].preps[l][1]].type

\* some task requires p and d is in the production window of that requirement
InProductionWindow(p, d) ==
    \E i \in DOMAIN task_dates :
        /\ \E k \in DOMAIN Requirements(task_dates[i].task) :
               Requirements(task_dates[i].task)[k][1] = p
        /\ task_dates[i].date - PrepDB[p].Expiration <= d
        /\ d <= get_previous_weekday(task_dates[i].date)

----------------------------------------------------------------------------
(* C1: per-day volume cap *)

----------------------------------------------------------------------------
(* C2: per-day count cap *)

\* C2: in the schedules returned by the Initial Scheduler, by Pass A and by
\* Pass B, every day holds at most 2 entries.
C2_CountCap ==
    /\ InitialReturned => CountCapHolds(final_schedule, DefaultMaxPrepsPerDay)
    /\ PassAReturned => CountCapHolds(consolidated_schedule, DefaultMaxPrepsPerDay)
    /\ PassBReturned => CountCapHolds(consolidated_schedule_new, DefaultMaxPrepsPerDay)

\* three requirements share their latest candidate day, so the third batch had
\* to go elsewhere, and each pass has left a day with 2 entries
C2_Witness ==
    /\ PassBReturned
    /\ EntryCount(final_schedule) >= 3
    /\ \E i \in DOMAIN final_schedule : Len(final_schedule[i].preps) = 2
    /\ \E i \in DOMAIN consolidated_schedule : Len(consolidated_schedule[i].preps) = 2
    /\ \E i \in DOMAIN consolidated_schedule_new : Len(consolidated_schedule_new[i].preps) = 2
    /\ \A p \in DOMAIN PrepDB : ScheduledVolume(consolidated_schedule_new, p) > 0

----------------------------------------------------------------------------
(* C3: no day holds Media and Buffer *)

\* C3 as claimed: after each stage no day holds both a Media and a Buffer entry.
C3_NoCrossType ==
    /\ InitialReturned => NoMixedDay(final_schedule)
    /\ PassAReturned => NoMixedDay(consolidated_schedule)
    /\ PassBReturned => NoMixedDay(consolidated_schedule_new)

----------------------------------------------------------------------------
(* C4: production window in the final schedule *)

\* C4 as claimed: every entry (p, v) on day d of the final schedule has a task
\* that requires p with start - expiration(p) <= d <= previous_safe_day(start).
C4_FinalInWindow ==
    PassBReturned =>
        \A i \in DOMAIN consolidated_schedule_new :
            \A k \in DOMAIN consolidated_schedule_new[i].preps :
                InProductionWindow(consolidated_schedule_new[i].preps[k][1],
                                   consolidated_schedule_new[i].day)

----------------------------------------------------------------------------
(* C5: conservation of volume *)

\* C5: the initial schedule holds, per preparation, the requested volume minus
\* the reported volume; each pass returns, per preparation, the volume of its
\* input; so the final schedule holds requested minus reported.
C5_Conservation ==
    \A p \in DOMAIN PrepDB :
        /\ InitialReturned =>
               ScheduledVolume(final_schedule, p) = RequestedVolume(p) - ReportedVolume(p)
        /\ PassAReturned =>
               ScheduledVolume(consolidated_schedule, p) = ScheduledVolume(final_schedule, p)
        /\ PassBReturned =>
               /\ ScheduledVolume(consolidated_schedule_new, p)
                      = ScheduledVolume(consolidated_schedule, p)
               /\ ScheduledVolume(consolidated_schedule_new, p)
                      = RequestedVolume(p) - ReportedVolume(p)

\* a preparation was placed in part and reported in part, and the passes have
\* moved its volume to other days
C5_Witness ==
    /\ PassBReturned
    /\ \E p \in DOMAIN PrepDB :
           /\ ReportedVolume(p) > 0
           /\ ScheduledVolume(consolidated_schedule_new, p) > 0
    /\ consolidated_schedule_new # final_schedule
    /\ Len(consolidated_schedule_new) >= 3

----------------------------------------------------------------------------
(* C6: termination *)

\* C6: the Initial Scheduler, Pass A and Pass B each run to completion, and
\* every fill loop of Pass A and of Pass B is left.
C6_Termination == <>(pc = "done")

\* a fill loop of each pass had to walk at least three days past the earliest
\* day of its preparation
C6_Witness ==
    \/ pc = "while_A" /\ day >= all_preps[pi].earliest_day + 3
    \/ pc = "while_B" /\ day >= temp_storage[pi].earliest_day + 3

----------------------------------------------------------------------------
(* C7: consolidation does not add production days *)

\* C7 as claimed: Pass A returns no more distinct production days than the
\* initial schedule has, and Pass B no more than Pass A returned.
C7_NoMoreDays ==
    /\ PassAReturned =>
           Cardinality(ProductionDays(consolidated_schedule))
               <= Cardinality(ProductionDays(final_schedule))
    /\ PassBReturned =>
           Cardinality(ProductionDays(consolidated_schedule_new))
               <= Cardinality(ProductionDays(consolidated_schedule))

----------------------------------------------------------------------------
(* C8: Pass A followed by Pass B on a conforming schedule *)

\* the schedule meets the count, volume and type constraints and every day of
\* it holds exactly one entry
ConformingOnePerDay(sched) ==
    /\ CountCapHolds(sched, DefaultMaxPrepsPerDay)
    /\ VolumeCapHolds(sched, DefaultMaxVolumePerDay)
    /\ NoMixedDay(sched)
    /\ \A i \in DOMAIN sched : Len(sched[i].preps) = 1

\* C8: for a conforming input schedule with one entry per day, the schedule
\* returned by Pass B after Pass A holds no more volume of any preparation than
\* the input, and no day of it exceeds 2 entries or 500 of volume per type.
C8_PassAThenPassB ==
    (PassBReturned /\ ConformingOnePerDay(final_schedule)) =>
        /\ \A p \in DOMAIN PrepDB :
               ScheduledVolume(consolidated_schedule_new, p) <= ScheduledVolume(final_schedule, p)
        /\ CountCapHolds(consolidated_schedule_new, DefaultMaxPrepsPerDay)
        /\ VolumeCapHolds(consolidated_schedule_new, DefaultMaxVolumePerDay)

\* a conforming input of three days, one entry each, that the passes repacked:
\* a preparation of two input days was merged past the cap of one day
C8_Witness ==
    /\ PassBReturned
    /\ ConformingOnePerDay(final_schedule)
    /\ Len(final_schedule) = 3
    /\ \E p \in DOMAIN PrepDB : ScheduledVolume(final_schedule, p) > DefaultMaxVolumePerDay
    /\ \E i \in DOMAIN consolidated_schedule_new : Len(consolidated_schedule_new[i].preps) = 2

----------------------------------------------------------------------------
(* C9: the end-to-end scenario *)

\* one task on a Wednesday that requires one Media preparation of volume 1300
\* with an expiration window of 10 days
C9_Scenario ==
    /\ Len(task_dates) = 1
    /\ task_dates[1].date % 7 = 2
    /\ DOMAIN tasks = {task_dates[1].task}
    /\ Len(tasks[task_dates[1].task]) = 1
    /\ tasks[task_dates[1].task][1][2] = 1300
    /\ PrepDB[tasks[task_dates[1].task][1][1]].type = "Media"
    /\ PrepDB[tasks[task_dates[1].task][1][1]].Expiration = 10

\* three days, each with one entry of p, holding 500, 500 and 300
ThreeDays(sched, p) ==
    /\ Len(sched) = 3
    /\ Cardinality({sched[i].day : i \in DOMAIN sched}) = 3
    /\ \A i \in DOMAIN sched : Len(sched[i].preps) = 1 /\ sched[i].preps[1][1] = p
    /\ Cardinality({i \in DOMAIN sched : sched[i].preps[1][2] = 500}) = 2
    /\ Cardinality({i \in DOMAIN sched : sched[i].preps[1][2] = 300}) = 1

\* C9: in the scenario the Initial Scheduler puts 500 on the Monday two days
\* before the task, 500 on the Friday before it and 300 on the Thursday before
\* it; the schedules after Pass A and after Pass B have exactly three days,
\* holding 500, 500 and 300.
C9_EndToEnd ==
    C9_Scenario =>
        LET start == task_dates[1].date
            p == tasks[task_dates[1].task][1][1]
        IN /\ InitialReturned =>
                  final_schedule = << [day |-> start - 2, preps |-> << <<p, 500>> >>],
                                      [day |-> start - 5, preps |-> << <<p, 500>> >>],
                                      [day |-> start - 6, preps |-> << <<p, 300>> >>] >>
           /\ PassAReturned => ThreeDays(consolidated_schedule, p)
           /\ PassBReturned => ThreeDays(consolidated_schedule_new, p)

\* the scenario has run through the three stages
C9_Witness == C9_Scenario /\ PassBReturned /\ Len(consolidated_schedule_new) = 3

----------------------------------------------------------------------------
(* C10: the unplaceable batch *)

\* C10: when a batch needs placement and the candidate list is empty, the step
\* reports that batch, leaves the schedule as it is and goes on with the next
\* batch or, after the last one, the next requirement; and when the scheduler
\* returns, every batch of every requirement of every task has been either
\* placed or reported.
C10_UnplaceableBatch ==
    [][ /\ (pc = "place_batches" /\ batches # <<>> /\ available_days = <<>>) =>
               /\ reported' = Append(reported, Head(batches))
               /\ schedule' = schedule
               /\ batches' = Tail(batches)
               /\ ti' = ti
               /\ ri' = IF Tail(batches) = <<>> THEN ri + 1 ELSE ri
               /\ pc' = IF Tail(batches) = <<>> THEN "optimize_schedule" ELSE "place_batches"
        /\ (pc = "optimize_schedule" /\ pc' = "consolidate_preps") =>
               /\ final_schedule' = schedule
               /\ EntryCount(final_schedule') + Len(reported') = RequestedBatches
      ]_vars

\* the first requirement of the first task had an empty window and its first
\* batch was reported first, a preparation of the second task was placed after
\* that, and the scheduler has returned
C10_Witness ==
    /\ InitialReturned
    /\ Len(task_dates) = 2
    /\ Requirements(task_dates[1].task) # <<>>
    /\ LET first == Requirements(task_dates[1].task)[1]
       IN /\ get_working_days(task_dates[1].date - PrepDB[first[1]].Expiration,
                              get_previous_weekday(task_dates[1].date)) = <<>>
          /\ reported # <<>>
          /\ reported[1][1] = first[1]
          /\ \E k \in DOMAIN Requirements(task_dates[2].task) :
                 /\ Requirements(task_dates[2].task)[k][1] # first[1]
                 /\ ScheduledVolume(final_schedule, Requirements(task_dates[2].task)[k][1]) > 0

----------------------------------------------------------------------------
(* Measures over the call of a utility *)

\* the call of fn has returned
Returned(fn) == pc = "returned" /\ args.fn = fn

\* the elements of a sequence
Range(s) == {s[i] : i \in DOMAIN s}

\* s is t with some elements left out, the others in the order of t
IsSubsequence(s, t) ==
    \E f \in [DOMAIN s -> DOMAIN t] :
        /\ \A i \in DOMAIN s : t[f[i]] = s[i]
        /\ \A i, j \in DOMAIN s : i < j => f[i] < f[j]

\* the entries of day d of a schedule: none when the day is absent
EntriesOn(sched, d) ==
    {<<i, k>> \in (DOMAIN sched) \X (1..(MaxEntries + 1)) :
        sched[i].day = d /\ k \in DOMAIN sched[i].preps}

----------------------------------------------------------------------------
(* C11: the rule of find_available_days *)

\* C11: a candidate day is in the result of find_available_days exactly when
\* it is absent from the schedule, or holds fewer than 2 entries, every one a
\* preparation of the queried type; so a day with 2 entries is not in the
\* result, nor is a day that holds an entry of the other type.
C11_AvailableDaysRule ==
    Returned("find_available_days") =>
        \A d \in Range(args.date_list) :
            LET on_day == EntriesOn(args.schedule, d)
                absent == \A i \in DOMAIN args.schedule : args.schedule[i].day # d
                same_type == \A e \in on_day :
                                 PrepDB[args.schedule[e[1]].preps[e[2]][1]].type
                                     = args.current_type
            IN /\ d \in Range(result) <=> (absent \/ (Cardinality(on_day) < 2 /\ same_type))
               /\ Cardinality(on_day) >= 2 => d \notin Range(result)
               /\ ~same_type => d \notin Range(result)

\* the candidates are a day with one entry of the queried type, a day with one
\* entry of the other type and a day absent from the schedule: the first and
\* the last are returned
C11_Witness ==
    /\ Returned("find_available_days")
    /\ args.date_list = <<9, 10, 11>>
    /\ args.current_type = "Media"
    /\ args.schedule = << [day |-> 9, preps |-> << <<"M1", 300>> >>],
                          [day |-> 10, preps |-> << <<"B1", 300>> >>] >>
    /\ result = <<9, 11>>

----------------------------------------------------------------------------
(* C12: the offsets of get_previous_weekday *)

----------------------------------------------------------------------------
(* C13: get_working_days *)

\* C13: get_working_days(start, end) returns, ascending and without
\* duplicates, exactly the dates from start to end that are Monday to Friday;
\* it returns the empty sequence when start > end and when the range holds
\* weekend days only.
C13_WorkingDays ==
    Returned("get_working_days") =>
        /\ \A i, j \in DOMAIN result : i < j => result[i] < result[j]
        /\ Range(result) = {d \in args.start_date..args.end_date : d % 7 \in 0..4}
        /\ args.start_date > args.end_date => result = <<>>
        /\ (\A d \in args.start_date..args.end_date : d % 7 \in 5..6) => result = <<>>

\* a range that begins before a weekend and ends after it
C13_Witness ==
    /\ Returned("get_working_days")
    /\ args.start_date % 7 = 3
    /\ args.end_date = args.start_date + 5
    /\ Len(result) = 4

----------------------------------------------------------------------------
(* C14: distribute_volume *)

\* C14: for a total volume V >= 0, distribute_volume(p, V) returns V div 500
\* batches (p, 500), followed by one batch (p, V mod 500) when V mod 500 > 0;
\* so every batch volume is in 1..500, the volumes sum to V, and V = 0 gives
\* the empty sequence.
C14_SplitIntoBatches ==
    Returned("distribute_volume") =>
        LET V == args.total_volume
            full == V \div 500
        IN /\ Len(result) = full + (IF V % 500 > 0 THEN 1 ELSE 0)
           /\ \A i \in 1..full : result[i] = <<args.prep, 500>>
           /\ V % 500 > 0 => result[full + 1] = <<args.prep, V % 500>>
           /\ \A i \in DOMAIN result : result[i][2] \in 1..500
           /\ SumSeq([i \in DOMAIN result |-> result[i][2]]) = V
           /\ V = 0 => result = <<>>

\* a volume of more than two full batches and a remainder
C14_Witness ==
    /\ Returned("distribute_volume")
    /\ args.total_volume > 1000
    /\ args.total_volume % 500 > 0
    /\ Len(result) = 3

----------------------------------------------------------------------------
(* C17: find_available_days reads only *)

\* C17: the call of find_available_days leaves the schedule and the candidate
\* list as they were, and its result is the candidate list with some elements
\* left out, the others in the same order.
C17_ReadOnlyFilter ==
    [][ pc = "find_available_days" =>
            /\ args'.schedule = args.schedule
            /\ args'.date_list = args.date_list
            /\ IsSubsequence(result', args.date_list)
      ]_vars

\* the call was made on a schedule with entries and on candidates that are not
\* in ascending order, and has kept some and dropped some
C17_Witness ==
    /\ Returned("find_available_days")
    /\ args.schedule # <<>>
    /\ Len(args.date_list) = 3
    /\ \E i \in 1..2 : args.date_list[i] > args.date_list[i + 1]
    /\ Len(result) = 2

----------------------------------------------------------------------------
(* C15: a preparation without metadata *)

\* every requirement of every task that has a start date names a preparation
\* of the preparation metadata
AllPrepsKnown ==
    \A i \in DOMAIN task_dates :
        \A k \in DOMAIN Requirements(task_dates[i].task) :
            Requirements(task_dates[i].task)[k][1] \in DOMAIN prep_details

\* C15: when the Initial Scheduler comes to a requirement whose preparation is
\* absent from the preparation metadata, it ends in the lookup failure: the
\* requirement is not skipped, no step follows the failure, so no later
\* requirement or task is processed, and no schedule is returned; a schedule
\* is returned only when no requirement names an absent preparation.
C15_MissingLookupFatal ==
    [][ /\ ( /\ pc = "optimize_schedule"
             /\ ti <= Len(task_dates)
             /\ ri <= Len(Requirements(CurTask))
             /\ CurPrep \notin DOMAIN prep_details )
           => /\ pc' = "KeyError"
              /\ final_schedule' = <<>>
              /\ UNCHANGED <<ti, ri, schedule, reported>>
        /\ pc # "KeyError"
        /\ pc' = "consolidate_preps" => AllPrepsKnown
      ]_vars

\* the first task had a requirement placed, its next requirement names the
\* absent preparation, and a second task with requirements was never reached
C15_Witness ==
    /\ pc = "KeyError"
    /\ ti = 1
    /\ ri = 2
    /\ schedule # <<>>
    /\ final_schedule = <<>>
    /\ Len(task_dates) = 2
    /\ Requirements(task_dates[2].task) # <<>>

----------------------------------------------------------------------------
(* Measures over one step of the Initial Scheduler *)

\* the entries of day d of the schedule under construction: none when absent
Before(d) == IF HasDay(schedule, d) THEN DayPreps(schedule, d) ELSE <<>>

\* the step has appended the entry (prep, volume) to day d of the schedule and
\* has left every other day as it was
PlacedOn(d, prep, volume) ==
    /\ HasDay(schedule', d)
    /\ DayPreps(schedule', d) = Append(Before(d), <<prep, volume>>)
    /\ \A i \in DOMAIN schedule : schedule[i].day # d => schedule'[i] = schedule[i]
    /\ \A j \in DOMAIN schedule' :
           schedule'[j].day # d => j \in DOMAIN schedule /\ schedule[j] = schedule'[j]

\* the step is an iteration of "for batch in batches" that changes the schedule
PlacingStep == pc = "place_batches" /\ schedule' # schedule

----------------------------------------------------------------------------
(* C18: the window of the initial placement *)

\* C18: every entry the Initial Scheduler places for a requirement (task t,
\* preparation p) goes on a Monday-to-Friday date d with
\* t.start_date - expiration(p) <= d <= previous_safe_day(t.start_date).
C18_InitialPlacementWindow ==
    [][ PlacingStep =>
            \E d \in (CurTaskDate - PrepDB[CurPrep].Expiration)
                         ..get_previous_weekday(CurTaskDate) :
                /\ d % 7 \in 0..4
                /\ PlacedOn(d, CurPrep, Head(batches)[2])
      ]_vars

\* one task whose requirement has been placed on the first and on the last day
\* of its window
C18_Witness ==
    /\ InitialReturned
    /\ Len(task_dates) = 1
    /\ \E k \in DOMAIN Requirements(task_dates[1].task) :
           LET p == Requirements(task_dates[1].task)[k][1]
               first == task_dates[1].date - PrepDB[p].Expiration
               last == get_previous_weekday(task_dates[1].date)
           IN /\ first < last
              /\ HasDay(final_schedule, first)
              /\ HasDay(final_schedule, last)
              /\ \A d \in {first, last} : \A e \in Range(DayPreps(final_schedule, d)) : e[1] = p

----------------------------------------------------------------------------
(* C19: availability at the moment of placement *)

\* C19: whenever the Initial Scheduler appends a batch of a preparation of type
\* T to day d, then in the schedule as it is at that moment d is absent or
\* holds fewer than 2 entries, all of type T; this is so for the second and
\* later batches of a requirement as for the first.
C19_AvailableWhenPlaced ==
    [][ PlacingStep =>
            \E d \in Range(available_days) :
                /\ PlacedOn(d, CurPrep, Head(batches)[2])
                /\ \/ ~HasDay(schedule, d)
                   \/ /\ Len(DayPreps(schedule, d)) < 2
                      /\ \A e \in Range(DayPreps(schedule, d)) :
                             PrepDB[e[1]].type = PrepDB[CurPrep].type
      ]_vars

\* a requirement of three batches came after a requirement of the same type:
\* its first batch joined the earlier entry, its later batches took fresh days
C19_Witness ==
    /\ InitialReturned
    /\ Len(task_dates) = 1
    /\ Len(Requirements(task_dates[1].task)) = 2
    /\ Requirements(task_dates[1].task)[2][2] = 1300
    /\ reported = <<>>
    /\ Len(final_schedule) = 3
    /\ Len(final_schedule[1].preps) = 2
    /\ final_schedule[1].preps[2] = <<Requirements(task_dates[1].task)[2][1], 500>>

----------------------------------------------------------------------------
(* C20: latest day first *)

\* C20: for a requirement split into batches b1..bk, with candidate days
\* c1 < ... < cm, the Initial Scheduler places bi on c(m-i+1) for every
\* i <= min(k, m), and drops exactly b(m+1)..bk as unplaceable; so the batches
\* of one requirement go to distinct days, latest candidate first.
C20_LatestDayFirst ==
    [][ pc = "place_batches" =>
            LET b == distribute_volume(CurPrep, CurVolume)
                k == Len(b)
                m == Len(candidate_days)
                i == k - Len(batches) + 1
            IN /\ \A x, y \in 1..m : x < y => candidate_days[x] < candidate_days[y]
               /\ i \in 1..k
               /\ IF i <= m
                  THEN /\ PlacedOn(candidate_days[m - i + 1], b[i][1], b[i][2])
                       /\ reported' = reported
                  ELSE /\ schedule' = schedule
                       /\ reported' = Append(reported, b[i])
      ]_vars

\* a requirement of three batches with two candidate days: the first batch is
\* on the later day, the second on the earlier, the third was dropped
C20_Witness ==
    /\ InitialReturned
    /\ Len(task_dates) = 1
    /\ Len(Requirements(task_dates[1].task)) = 1
    /\ candidate_days = <<10, 11>>
    /\ final_schedule = << [day |-> 11, preps |-> << <<"M2", 500>> >>],
                           [day |-> 10, preps |-> << <<"M2", 500>> >>] >>
    /\ reported = << <<"M2", 300>> >>

----------------------------------------------------------------------------
(* C16: the passes rebuild *)

\* Pass A is running: final_schedule is its input
InPassA == pc \in {"consolidate_preps", "aggregate_A", "for_A", "while_A"}

\* Pass B is running: consolidated_schedule is its input
InPassB == pc \in {"consolidate_preps_with_constraints", "aggregate_B", "for_B", "while_B"}

\* two schedule variables hold different dicts that have no day list in common
NothingShared(a, b) ==
    /\ a.dict # b.dict
    /\ Range(a.lists) \cap Range(b.lists) = {}

\* C16: no step of Pass A changes its input schedule, no step of Pass B
\* changes its input schedule (the same days, the same entries in the same
\* order, held by the same objects), and the schedule each pass returns is a
\* new dict that has no day list in common with the input of the pass.
C16_PassesRebuild ==
    [][ /\ InPassA =>
               /\ final_schedule' = final_schedule
               /\ heap'.final_schedule = heap.final_schedule
        /\ InPassB =>
               /\ consolidated_schedule' = consolidated_schedule
               /\ heap'.consolidated_schedule = heap.consolidated_schedule
        /\ PassAReturned' =>
               NothingShared(heap'.consolidated_schedule, heap'.final_schedule)
        /\ PassBReturned' =>
               NothingShared(heap'.consolidated_schedule_new, heap'.consolidated_schedule)
      ]_vars

\* both passes have returned a schedule that differs from their input, of
\* three days each, and the three schedules are as they were returned
C16_Witness ==
    /\ PassBReturned
    /\ Len(final_schedule) = 3
    /\ Len(consolidated_schedule) = 3
    /\ consolidated_schedule # final_schedule
    /\ consolidated_schedule_new # consolidated_schedule
    /\ Len(heap.consolidated_schedule.lists) = 3
    /\ Len(heap.consolidated_schedule_new.lists) = Len(consolidated_schedule_new)

----------------------------------------------------------------------------
(* C24: get_previous_weekday gives a weekday before its argument *)

\* C24: for a date of any of the seven days of the week, get_previous_weekday
\* returns a date strictly earlier than its argument that is Monday to Friday.
C24_WeekdayBeforeDeadline ==
    Returned("get_previous_weekday") =>
        /\ result < args.given_date
        /\ result % 7 \in 0..4

\* the call on a Sunday has returned the Friday before it
C24_Witness ==
    /\ Returned("get_previous_weekday")
    /\ args.given_date % 7 = 6
    /\ result = args.given_date - 2

----------------------------------------------------------------------------
(* Measures over the passes *)

\* the days of a schedule on which preparation p has an entry
DaysOf(sched, p) ==
    {sched[i].day : i \in {j \in DOMAIN sched : \E k \in DOMAIN sched[j].preps :
                                                    sched[j].preps[k][1] = p}}

\* the preparations that have an entry in a schedule
PrepsOf(sched) == {p \in DOMAIN PrepDB : DaysOf(sched, p) # {}}

\* the least date on which preparation p has an entry
MinDay(sched, p) == CHOOSE d \in DaysOf(sched, p) : \A e \in DaysOf(sched, p) : d <= e

\* the number of entries of preparation p in a schedule
PrepEntryCount(sched, p) ==
    SumSeq([i \in DOMAIN sched |->
               Cardinality({k \in DOMAIN sched[i].preps : sched[i].preps[k][1] = p})])

\* the days of the dict are iterated in ascending order of date
AscendingDays(sched) == \A i, j \in DOMAIN sched : i < j => sched[i].day < sched[j].day

----------------------------------------------------------------------------
(* C21: the output of the passes obeys the limits, whatever the input *)

\* C21: for every input schedule, also one with a day over the volume limit,
\* a day with more than max_preps_per_day entries or a day of mixed types, and
\* for all limits >= 1, every day of the schedule returned by Pass A and of the
\* schedule returned by Pass B holds at most max_preps_per_day entries and at
\* most max_volume_per_day of volume per type.
C21_OutputObeysLimits ==
    /\ PassAReturned =>
           /\ CountCapHolds(consolidated_schedule, max_preps_per_day)
           /\ VolumeCapHolds(consolidated_schedule, max_volume_per_day)
    /\ PassBReturned =>
           /\ CountCapHolds(consolidated_schedule_new, max_preps_per_day)
           /\ VolumeCapHolds(consolidated_schedule_new, max_volume_per_day)

\* the input is one day of three entries of both types, over every limit, and
\* both passes have spread it out under a limit of one entry per day
C21_Witness ==
    /\ PassBReturned
    /\ max_preps_per_day = 1
    /\ Len(final_schedule) = 1
    /\ Len(final_schedule[1].preps) = 3
    /\ ~NoMixedDay(final_schedule)
    /\ ~VolumeCapHolds(final_schedule, max_volume_per_day)
    /\ Len(consolidated_schedule) >= 3
    /\ Len(consolidated_schedule_new) >= 3

----------------------------------------------------------------------------
(* C23: forward fill from the earliest day *)

\* C23: in Pass A and in Pass B the earliest day recorded for a preparation is
\* the least date on which it appears in the input, in whatever order the
\* input is iterated; every entry of the preparation in the output is on that
\* day or a later one; and the first preparation processed has an entry on
\* its earliest day.
C23_ForwardFill ==
    /\ pc \in {"for_A", "while_A"} =>
           \A i \in DOMAIN all_preps :
               all_preps[i].earliest_day = MinDay(final_schedule, all_preps[i].prep)
    /\ pc \in {"for_B", "while_B"} =>
           \A i \in DOMAIN temp_storage :
               temp_storage[i].earliest_day = MinDay(final_schedule, temp_storage[i].prep)
    /\ PassAReturned =>
           /\ \A p \in PrepsOf(consolidated_schedule) :
                  \A d \in DaysOf(consolidated_schedule, p) : d >= MinDay(final_schedule, p)
           /\ final_schedule # <<>> =>
                  LET first == final_schedule[1].preps[1][1]
                  IN MinDay(final_schedule, first) \in DaysOf(consolidated_schedule, first)
    /\ PassBReturned =>
           /\ \A p \in PrepsOf(consolidated_schedule_new) :
                  \A d \in DaysOf(consolidated_schedule_new, p) : d >= MinDay(final_schedule, p)
           /\ final_schedule # <<>> =>
                  LET least == CHOOSE i \in DOMAIN final_schedule :
                                   \A j \in DOMAIN final_schedule :
                                       final_schedule[i].day <= final_schedule[j].day
                      first == final_schedule[least].preps[1][1]
                  IN MinDay(final_schedule, first) \in DaysOf(consolidated_schedule_new, first)

\* the input is iterated latest day first, a preparation is on both of its
\* days, and each pass has spread that preparation over more than one day
C23_Witness ==
    /\ PassBReturned
    /\ Len(final_schedule) = 2
    /\ final_schedule[1].day > final_schedule[2].day
    /\ \E p \in DOMAIN PrepDB :
           /\ Cardinality(DaysOf(final_schedule, p)) = 2
           /\ Cardinality(DaysOf(consolidated_schedule, p)) >= 2
           /\ Cardinality(DaysOf(consolidated_schedule_new, p)) >= 2

----------------------------------------------------------------------------
(* C22: Pass B places a preparation on one day when it fits *)

\* the entries of day d of the schedule Pass B is building: none when absent
OnDay(d) == IF HasDay(optimized_schedule, d) THEN DayPreps(optimized_schedule, d) ELSE <<>>

\* C22: when Pass B starts on a preparation p of aggregated volume T > 0 and
\* its earliest day then holds fewer than max_preps_per_day entries and
\* same-type volume c with c + T <= max_volume_per_day, the output holds one
\* entry for p, (p, T) on the earliest day; otherwise each visited day gets
\* as much as fits, nothing when the day is at the entry limit, and the pass
\* moves on by one calendar day.
C22_PassBSingleDay ==
    [][ /\ pc = "while_B" =>
               LET p == temp_storage[pi].prep
                   T == temp_storage[pi].volume
                   c == DayTypeVolume(OnDay(day), PrepDB[p].type)
                   room == Len(OnDay(day)) < max_preps_per_day
                   free == max_volume_per_day - c
                   fit == IF room /\ free > 0
                          THEN (IF free < volume_remaining THEN free ELSE volume_remaining)
                          ELSE 0
               IN /\ IF room /\ c + volume_remaining <= max_volume_per_day
                     THEN /\ DayPreps(optimized_schedule', day)
                                 = Append(OnDay(day), <<p, volume_remaining>>)
                          /\ pc' = "for_B"
                          /\ (day = temp_storage[pi].earliest_day /\ volume_remaining = T) =>
                                 /\ PrepEntryCount(optimized_schedule', p) = 1
                                 /\ DaysOf(optimized_schedule', p) = {temp_storage[pi].earliest_day}
                                 /\ ScheduledVolume(optimized_schedule', p) = T
                     ELSE /\ DayPreps(optimized_schedule', day)
                                 = IF fit > 0 THEN Append(OnDay(day), <<p, fit>>) ELSE OnDay(day)
                          /\ volume_remaining' = volume_remaining - fit
                          /\ day' = day + 1
                  /\ \A q \in DOMAIN PrepDB \ {p} :
                         /\ PrepEntryCount(optimized_schedule', q)
                                = PrepEntryCount(optimized_schedule, q)
                         /\ DaysOf(optimized_schedule', q) = DaysOf(optimized_schedule, q)
        /\ pc = "for_B" =>
               /\ optimized_schedule' = optimized_schedule
               /\ pc' = "done" => consolidated_schedule_new' = optimized_schedule
      ]_vars

\* a preparation was split over two days because of the volume limit, and a
\* preparation of the other type was then placed whole beside its first part
C22_Witness ==
    /\ PassBReturned
    /\ max_preps_per_day = 2
    /\ \E p, q \in DOMAIN PrepDB :
           /\ PrepDB[p].type # PrepDB[q].type
           /\ PrepEntryCount(consolidated_schedule_new, p) = 2
           /\ PrepEntryCount(consolidated_schedule_new, q) = 1
           /\ MinDay(final_schedule, p) = MinDay(final_schedule, q)
           /\ DaysOf(consolidated_schedule_new, q) = {MinDay(final_schedule, q)}
           /\ ScheduledVolume(consolidated_schedule_new, q) = ScheduledVolume(final_schedule, q)

----------------------------------------------------------------------------
(* C25: Pass A and Pass B place alike *)

\* C25: on an input schedule whose days are iterated in ascending order of
\* date, with positive entry volumes, and under the same limits >= 1,
\* consolidate_preps and consolidate_preps_with_constraints return the same
\* schedule: the same days in the same order, each with the same entries in
\* the same order.
C25_SamePlacement ==
    (PassBReturned /\ AscendingDays(final_schedule)) =>
        consolidated_schedule_new = consolidated_schedule

\* an input of two days in ascending order that both passes have spread over
\* three days or more
C25_Witness ==
    /\ PassBReturned
    /\ AscendingDays(final_schedule)
    /\ Len(final_schedule) = 2
    /\ Len(consolidated_schedule) >= 3
    /\ Len(consolidated_schedule_new) >= 3
    /\ \E i \in DOMAIN consolidated_schedule : Len(consolidated_schedule[i].preps) = 2

====
